---- MODULE Spec2Model ----
(***************************************************************************)
(* Model of biosonic/score.py: the batch pipeline                          *)
(*   load_json_files -> extract_labels_and_predictions ->                  *)
(*   calculate_metrics -> report                                           *)
(* and of the pure function extract_true_label.                            *)
(*                                                                         *)
(* Strings are sequences of one-character strings, so that split, join and *)
(* lower are computed character by character.  Probabilities are fixed     *)
(* point numbers in hundredths (0.7 is 70, 1 - p is Unit - p).             *)
(***************************************************************************)
EXTENDS Integers, Sequences, FiniteSets, TLC

VARIABLES files, data, y_true, y_pred, y_true_binary, y_pred_binary,
          y_scores, auroc, balanced_acc, auprc, roc_called, out, pc,
          filename, true_label

vars == <<files, data, y_true, y_pred, y_true_binary, y_pred_binary,
          y_scores, auroc, balanced_acc, auprc, roc_called, out, pc,
          filename, true_label>>

pipeVars == <<files, data, y_true, y_pred, y_true_binary, y_pred_binary,
              y_scores, auroc, balanced_acc, auprc, roc_called, out>>

(***************************************************************************)
(* Bounds                                                                  *)
(***************************************************************************)
\* longest identifier string handed to extract_true_label
MaxLen == 4
\* most JSON files in the directory
MaxFiles == 2
\* most annotation entries in the whole directory
MaxPairs == 2
\* longest replacement tail tried when an id is varied from its first
\* digit-containing part onwards
MaxTail == 2

(***************************************************************************)
(* Characters and strings                                                  *)
(***************************************************************************)
Chars == {"a", "A", "b", "1", "2", "_"}

Digits == {"0", "1", "2", "3", "4", "5", "6", "7", "8", "9"}

\* str.isdigit on one character
isdigit(c) == c \in Digits

\* str.lower on one character
LowerChar(c) ==
    IF c = "A" THEN "a" ELSE IF c = "B" THEN "b" ELSE c

\* str.lower
lower(s) == [k \in 1..Len(s) |-> LowerChar(s[k])]

\* all strings over alphabet of length lo..hi
Strings(alphabet, lo, hi) == UNION {[1..n -> alphabet] : n \in lo..hi}

\* str.split('_'): the maximal runs between underscores, empty runs kept
RECURSIVE split(_)
split(s) ==
    IF \A k \in 1..Len(s) : s[k] # "_"
    THEN <<s>>
    ELSE LET k == CHOOSE j \in 1..Len(s) :
                      s[j] = "_" /\ \A m \in 1..(j-1) : s[m] # "_"
         IN  <<SubSeq(s, 1, k-1)>> \o split(SubSeq(s, k+1, Len(s)))

\* ' '.join(parts)
RECURSIVE join(_)
join(parts) ==
    IF Len(parts) = 0 THEN <<>>
    ELSE IF Len(parts) = 1 THEN parts[1]
    ELSE parts[1] \o <<" ">> \o join(Tail(parts))

\* any(char.isdigit() for char in part)
HasDigit(part) == \E k \in 1..Len(part) : isdigit(part[k])

\* The for loop of extract_true_label, entered at the part with 0-based
\* index i: the value the loop variable i has when the loop is left, by the
\* break or by running off the end of parts.
RECURSIVE LoopExit(_, _)
LoopExit(parts, i) ==
    IF HasDigit(parts[i+1]) THEN i
    ELSE IF i + 1 = Len(parts) THEN i
    ELSE LoopExit(parts, i + 1)

extract_true_label(name) ==
    LET parts == split(name)
        i == LoopExit(parts, 0)
    IN  join(SubSeq(parts, 1, i))

(***************************************************************************)
(* Values                                                                  *)
(***************************************************************************)
\* classification threshold, 0.7 in hundredths
THRESHOLD == 70

\* the 1 of "1 - class_prob", in hundredths
Unit == 100

\* a variable main has not assigned yet
Unset == [kind |-> "unset", num |-> 0, den |-> 0]

\* Python's None
None == [kind |-> "None", num |-> 0, den |-> 0]

\* a number, kept as the exact fraction num/den
Float(n, d) == [kind |-> "float", num |-> n, den |-> d]

\* the exception a scikit-learn routine raises
ValueError == [kind |-> "ValueError", num |-> 0, den |-> 0]

Range(s) == {s[k] : k \in 1..Len(s)}

RECURSIVE SumSeq(_)
SumSeq(s) == IF Len(s) = 0 THEN 0 ELSE s[1] + SumSeq(Tail(s))

RECURSIVE Flatten(_)
Flatten(ss) == IF Len(ss) = 0 THEN <<>> ELSE ss[1] \o Flatten(Tail(ss))

(***************************************************************************)
(* The directory: JSON result records, each with an id and a sequence of   *)
(* annotations (class, class_prob)                                         *)
(***************************************************************************)
Ids == { <<"a", "_", "1">>, <<"A", "_", "1">> }

Classes == { <<"a">>, <<"A">>, <<"b">> }

Probs == {30, 70, 90}

Annotations == [class : Classes, class_prob : Probs]

\* annotation counts of k records, at most MaxPairs annotations in all
Shapes(k) == {c \in [1..k -> 0..MaxPairs] : SumSeq(c) <= MaxPairs}

\* the records with ids ids and annotation counts c, the annotations taken
\* in order from flat
Records(ids, c, flat) ==
    [r \in 1..Len(ids) |->
        LET before == SumSeq(SubSeq(c, 1, r-1))
        IN  [id |-> ids[r],
             annotation |-> SubSeq(flat, before + 1, before + c[r])]]

(***************************************************************************)
(* extract_labels_and_predictions                                          *)
(***************************************************************************)
\* (faulty variant: the truth is taken from the annotation)
TruthOfAnnotation(true_class, annotation) == annotation.class

\* what is appended to y_true for one annotation
TruthOf(true_class, annotation) == true_class

\* (faulty variant: class_prob is never inverted)
ScoreNeverInverted(true_class, annotation) == annotation.class_prob

\* the score kept with a prediction
ScoreOf(true_class, annotation) ==
    IF annotation.class = true_class
    THEN annotation.class_prob
    ELSE Unit - annotation.class_prob

\* the (truth, prediction) pairs of one record, in annotation order
PairsOfEntry(entry) ==
    LET true_class == extract_true_label(entry.id)
    IN  [k \in 1..Len(entry.annotation) |->
            [truth |-> TruthOf(true_class, entry.annotation[k]),
             pred  |-> <<entry.annotation[k].class,
                         ScoreOf(true_class, entry.annotation[k])>>]]

extract_labels_and_predictions(d) ==
    LET pairs == Flatten([r \in 1..Len(d) |-> PairsOfEntry(d[r])])
    IN  [y_true |-> [k \in 1..Len(pairs) |-> pairs[k].truth],
         y_pred |-> [k \in 1..Len(pairs) |-> pairs[k].pred]]

(***************************************************************************)
(* calculate_metrics                                                       *)
(***************************************************************************)
\* (faulty variant: the class names are left as they are)
NormalizeNothing(yp) == yp

\* "normalize the case of class names": the predictions only
NormalizePred(yp) == [k \in 1..Len(yp) |-> <<lower(yp[k][1]), yp[k][2]>>]

\* (faulty variant: a score equal to the threshold is not positive)
ConfusionStrict(truth, pred) ==
    IF truth = pred[1] /\ pred[2] > THRESHOLD THEN <<1, 1>>
    ELSE IF truth = pred[1] THEN <<1, 0>>
    ELSE IF pred[2] > THRESHOLD THEN <<0, 1>>
    ELSE <<0, 0>>

\* the if/elif chain: <<binary truth, binary prediction>> of one pair
Confusion(truth, pred) ==
    IF truth = pred[1] /\ pred[2] >= THRESHOLD THEN <<1, 1>>
    ELSE IF truth = pred[1] /\ pred[2] < THRESHOLD THEN <<1, 0>>
    ELSE IF truth # pred[1] /\ pred[2] >= THRESHOLD THEN <<0, 1>>
    ELSE <<0, 0>>

\* (faulty variant: the test the comment describes, no positive present)
NoPositive(ytb) == 1 \notin Range(ytb)

\* len(set(y_true_binary)) == 1
OnlyOneClass(ytb) == Cardinality(Range(ytb)) = 1

\* sklearn.metrics.roc_auc_score: raises ValueError on an empty input and
\* on a truth vector with a single class; otherwise the fraction of
\* (positive, negative) pairs ranked correctly, ties counted half.
roc_auc_score(yt, ys) ==
    IF Len(yt) = 0 \/ Cardinality(Range(yt)) < 2
    THEN ValueError
    ELSE LET pos == {k \in 1..Len(yt) : yt[k] = 1}
             neg == {k \in 1..Len(yt) : yt[k] = 0}
             won == {pn \in pos \X neg : ys[pn[1]] > ys[pn[2]]}
             tie == {pn \in pos \X neg : ys[pn[1]] = ys[pn[2]]}
         IN  Float(2 * Cardinality(won) + Cardinality(tie),
                   2 * Cardinality(pos) * Cardinality(neg))

\* sklearn.metrics.balanced_accuracy_score: the mean, over the classes
\* present in the truth vector, of the recall of the class
balanced_accuracy_score(yt, yp) ==
    LET n(c) == Cardinality({k \in 1..Len(yt) : yt[k] = c})
        hit(c) == Cardinality({k \in 1..Len(yt) : yt[k] = c /\ yp[k] = c})
    IN  IF n(0) > 0 /\ n(1) > 0
        THEN Float(hit(0) * n(1) + hit(1) * n(0), 2 * n(0) * n(1))
        ELSE IF n(1) > 0 THEN Float(hit(1), n(1))
        ELSE Float(hit(0), n(0))

\* auc(recall, precision) of precision_recall_curve(y_true_binary,
\* y_scores): the library's value, kept as the call's arguments. On a
\* non-empty input neither routine raises (a truth vector without positives
\* gives a warning and a curve of at least two points).
auc_precision_recall(yt, ys) == [kind |-> "float", y_true |-> yt, y_score |-> ys]

(***************************************************************************)
(* main                                                                    *)
(***************************************************************************)
Line(tag, val) == [tag |-> tag, val |-> val]

InitMain ==
    /\ \E k \in 0..MaxFiles :
         \E ids \in [1..k -> Ids] :
           \E c \in Shapes(k) :
             \E flat \in [1..SumSeq(c) -> Annotations] :
               files = Records(ids, c, flat)
    /\ data = <<>> /\ y_true = <<>> /\ y_pred = <<>>
    /\ y_true_binary = <<>> /\ y_pred_binary = <<>> /\ y_scores = <<>>
    /\ auroc = Unset /\ balanced_acc = Unset /\ auprc = Unset
    /\ roc_called = FALSE /\ out = <<>>
    /\ pc = "start"
    /\ filename = <<>> /\ true_label = <<>>

\* load_json_files: every file found is parsed, in glob order
LoadJsonFiles ==
    /\ pc = "start"
    /\ data' = files
    /\ out' = out \o <<Line("Found JSON files", Len(files))>>
                  \o (IF Len(files) = 0
                      THEN <<Line("No JSON files found in directory", 0)>>
                      ELSE <<>>)
    /\ pc' = "loaded"
    /\ UNCHANGED <<files, y_true, y_pred, y_true_binary, y_pred_binary,
                   y_scores, auroc, balanced_acc, auprc, roc_called,
                   filename, true_label>>

ExtractLabelsAndPredictions ==
    /\ pc = "loaded"
    /\ LET r == extract_labels_and_predictions(data)
       IN  /\ y_true' = r.y_true
           /\ y_pred' = r.y_pred
    /\ pc' = "extracted"
    /\ UNCHANGED <<files, data, y_true_binary, y_pred_binary, y_scores,
                   auroc, balanced_acc, auprc, roc_called, out,
                   filename, true_label>>

\* calculate_metrics; an exception of roc_auc_score leaves it, and main
CalculateMetrics ==
    /\ pc = "extracted"
    /\ LET yp  == NormalizePred(y_pred)
           cf  == [k \in 1..Len(y_true) |-> Confusion(y_true[k], yp[k])]
           ytb == [k \in 1..Len(y_true) |-> cf[k][1]]
           ypb == [k \in 1..Len(y_true) |-> cf[k][2]]
           ys  == [k \in 1..Len(y_true) |-> yp[k][2]]
           roc == IF OnlyOneClass(ytb) THEN None ELSE roc_auc_score(ytb, ys)
       IN  /\ y_true_binary' = ytb
           /\ y_pred_binary' = ypb
           /\ y_scores' = ys
           /\ roc_called' = ~OnlyOneClass(ytb)
           /\ IF roc = ValueError
              THEN /\ pc' = "raised"
                   /\ UNCHANGED <<auroc, balanced_acc, auprc>>
              ELSE /\ auroc' = roc
                   /\ balanced_acc' = balanced_accuracy_score(ytb, ypb)
                   /\ auprc' = auc_precision_recall(ytb, ys)
                   /\ pc' = "calculated"
    /\ UNCHANGED <<files, data, y_true, y_pred, out, filename, true_label>>

\* the prints of main after calculate_metrics has returned
Report ==
    /\ pc = "calculated"
    /\ out' = out
              \o <<IF auroc # None
                   THEN Line("AUROC", auroc)
                   ELSE Line("AUROC: Not defined (only one class present in y_true)", None)>>
              \o <<Line("AUPRC", auprc), Line("Balanced Accuracy", balanced_acc)>>
    /\ pc' = "done"
    /\ UNCHANGED <<files, data, y_true, y_pred, y_true_binary, y_pred_binary,
                   y_scores, auroc, balanced_acc, auprc, roc_called,
                   filename, true_label>>

(***************************************************************************)
(* Extraction of one label: the input is any identifier string             *)
(***************************************************************************)
Filenames == Strings(Chars, 0, MaxLen)

NoPipeline ==
    /\ files = <<>> /\ data = <<>> /\ y_true = <<>> /\ y_pred = <<>>
    /\ y_true_binary = <<>> /\ y_pred_binary = <<>> /\ y_scores = <<>>
    /\ auroc = Unset /\ balanced_acc = Unset /\ auprc = Unset
    /\ roc_called = FALSE /\ out = <<>>

InitLabel ==
    /\ NoPipeline
    /\ pc = "label_input"
    /\ filename \in Filenames
    /\ true_label = <<>>

ExtractTrueLabel ==
    /\ pc = "label_input"
    /\ true_label' = extract_true_label(filename)
    /\ pc' = "labelled"
    /\ UNCHANGED <<pipeVars, filename>>

(***************************************************************************)
(* A behaviour is a run of main on some directory, or a call of            *)
(* extract_true_label on some identifier                                   *)
(***************************************************************************)
Init == InitMain \/ InitLabel

Next ==
    \/ LoadJsonFiles
    \/ ExtractLabelsAndPredictions
    \/ CalculateMetrics
    \/ Report
    \/ ExtractTrueLabel

Spec == Init /\ [][Next]_vars


(***************************************************************************)
(* Vocabulary of the properties                                            *)
(***************************************************************************)
\* calculate_metrics has been left, by a return or by an exception
LeftCalculate == pc \in {"calculated", "raised", "done"}

Extracted == pc \in {"extracted", "calculated", "raised", "done"}

NotDefinedLine ==
    Line("AUROC: Not defined (only one class present in y_true)", None)

Printed(tag) == \E k \in 1..Len(out) : out[k].tag = tag

\* number of annotations in the records before record r
Before(d, r) == SumSeq([j \in 1..(r-1) |-> Len(d[j].annotation)])

TotalAnnotations(d) == Before(d, Len(d) + 1)

\* the positions (record, annotation) of d
Positions(d) ==
    {rk \in (1..Len(d)) \X (1..MaxPairs + 1) : rk[2] <= Len(d[rk[1]].annotation)}

\* the indices of the parts of name that contain a digit
DigitParts(name) ==
    {k \in 1..Len(split(name)) : HasDigit(split(name)[k])}

FirstDigitPart(name) ==
    CHOOSE k \in DigitParts(name) : \A j \in DigitParts(name) : k <= j

\* the label the convention describes: the parts before the first part
\* with a digit, all the parts when none has one
ConventionLabel(name) ==
    LET parts == split(name)
        n == IF DigitParts(name) = {} THEN Len(parts)
             ELSE FirstDigitPart(name) - 1
    IN  join(SubSeq(parts, 1, n))

\* the strings that can replace an id from its first digit-containing part
\* onwards: their own first part contains a digit
Tails == {t \in Strings(Chars, 1, MaxTail) : HasDigit(split(t)[1])}

\* name with everything from its first digit-containing part onwards
\* replaced by a tail
Variants(name) ==
    IF DigitParts(name) = {} THEN {}
    ELSE LET parts == split(name)
             keep == SumSeq([j \in 1..(FirstDigitPart(name) - 1) |->
                                Len(parts[j]) + 1])
         IN  {SubSeq(name, 1, keep) \o t : t \in Tails}

(***************************************************************************)
(* C3                                                                      *)
(***************************************************************************)
\* C3: for every identifier, extract_true_label returns the parts before the
\* first part containing a digit, joined by single spaces, case unchanged;
\* the empty string when the first part contains a digit; and all the parts
\* when no part contains a digit.
C3_LabelFollowsConvention ==
    pc = "labelled" => true_label = ConventionLabel(filename)

(***************************************************************************)
(* C4                                                                      *)
(***************************************************************************)
\* d with the annotation at position k (counted over the whole input)
\* replaced by a
Replaced(d, k, a) ==
    [r \in 1..Len(d) |->
        [id |-> d[r].id,
         annotation |->
            [m \in 1..Len(d[r].annotation) |->
                IF Before(d, r) + m = k THEN a ELSE d[r].annotation[m]]]]

\* C4: the true labels depend on the ids alone. A run over the same ids in
\* the same order in which an annotation has any other class and
\* class_prob yields the same y_true (every input within the bounds is one
\* the run can start from, so replacing the annotations one after the other
\* reaches any other annotation content), and an identifier that differs
\* from the extracted one only from the first digit-containing part onwards
\* gets the same true label.
C4_TruthDependsOnIdOnly ==
    /\ pc = "extracted" =>
         \A k \in 1..TotalAnnotations(data) : \A a \in Annotations :
            extract_labels_and_predictions(Replaced(data, k, a)).y_true
              = y_true
    /\ pc = "labelled" =>
         \A g \in Variants(filename) : extract_true_label(g) = true_label

C4_Witness ==
    /\ pc = "extracted"
    /\ Len(data) = 2
    /\ Len(y_true) = 2
    /\ y_true[1] # y_true[2]
    /\ \E a \in Annotations :
         /\ a.class # data[1].annotation[1].class
         /\ a.class_prob # data[1].annotation[1].class_prob
         /\ extract_labels_and_predictions(Replaced(data, 1, a)).y_pred
              # y_pred

(***************************************************************************)
(* C1                                                                      *)
(***************************************************************************)
\* C1: on a directory without .json files main reports that zero files
\* were found and completes without raising.
C1_EmptyDirectoryCompletes ==
    (Len(files) = 0 /\ pc \notin {"start", "label_input", "labelled"}) =>
        /\ out[1] = Line("Found JSON files", 0)
        /\ pc # "raised"

(***************************************************************************)
(* C2                                                                      *)
(***************************************************************************)
\* the labels derived from the ids of the records
DerivedLabels(d) == {extract_true_label(d[r].id) : r \in 1..Len(d)}

\* annotation rk of d predicts, case ignored on the prediction's side, the
\* label derived from its record's id
Agrees(d, rk) ==
    lower(d[rk[1]].annotation[rk[2]].class) = extract_true_label(d[rk[1]].id)

\* C2 as stated, on the inputs that have annotations: whenever the
\* records' derived true labels have exactly one distinct value, whatever
\* the annotations predict, AUROC is None and main prints the sentinel,
\* never a number and never an error.
C2_SingleTrueLabelUndefined ==
    (/\ LeftCalculate
     /\ Positions(data) # {}
     /\ Cardinality(DerivedLabels(data)) = 1) =>
        /\ pc # "raised"
        /\ auroc = None
        /\ pc = "done" => (Printed(NotDefinedLine.tag) /\ ~Printed("AUROC"))

\* C2 amended: whenever the input has at least one annotation and either
\* every annotation agrees with its record's derived label or none does,
\* AUROC is None and main prints the sentinel, never a number and never an
\* error.
C2_SingleBinaryClassUndefined ==
    (/\ LeftCalculate
     /\ Positions(data) # {}
     /\ \/ \A rk \in Positions(data) : Agrees(data, rk)
        \/ \A rk \in Positions(data) : ~Agrees(data, rk)) =>
        /\ pc # "raised"
        /\ auroc = None
        /\ pc = "done" => (Printed(NotDefinedLine.tag) /\ ~Printed("AUROC"))

C2_Witness ==
    /\ pc = "done"
    /\ Len(data) = 2
    /\ Cardinality(DerivedLabels(data)) = 2
    /\ Cardinality(Positions(data)) = 2
    /\ \A rk \in Positions(data) : Agrees(data, rk)
    /\ auroc = None
    /\ Printed(NotDefinedLine.tag)

(***************************************************************************)
(* C5                                                                      *)
(***************************************************************************)
\* C5: on a non-empty sequence of pairs the ROC routine is invoked exactly
\* when the binary truth vector holds both a 0 and a 1; with a single class
\* it is not called, auroc is None, nothing is raised and main prints the
\* "Not defined" line and no numeric AUROC line.
C5_RocCalledIffBothClasses ==
    (LeftCalculate /\ Len(y_true) > 0) =>
        /\ roc_called <=> ({0, 1} \subseteq Range(y_true_binary))
        /\ Cardinality(Range(y_true_binary)) = 1 =>
              /\ ~roc_called
              /\ pc # "raised"
              /\ auroc = None
              /\ pc = "done" =>
                    (Printed(NotDefinedLine.tag) /\ ~Printed("AUROC"))
        /\ roc_called =>
              /\ pc # "raised"
              /\ auroc.kind = "float"
              /\ pc = "done" =>
                    (Printed("AUROC") /\ ~Printed(NotDefinedLine.tag))

C5_Witness ==
    /\ pc = "done"
    /\ y_true_binary = <<1, 1>>
    /\ y_pred_binary = <<1, 0>>
    /\ ~roc_called
    /\ auroc = None
    /\ Printed(NotDefinedLine.tag)

(***************************************************************************)
(* C6                                                                      *)
(***************************************************************************)
\* C6: when the input has annotations, each annotation's class equals the
\* label derived from its record's id and each class_prob is at or above
\* the threshold, every pair is a true positive, balanced accuracy is 1.0
\* and AUROC is undefined.
C6_AllCorrectAndConfident ==
    (/\ LeftCalculate
     /\ Positions(data) # {}
     /\ \A rk \in Positions(data) :
           LET a == data[rk[1]].annotation[rk[2]]
           IN  /\ a.class = extract_true_label(data[rk[1]].id)
               /\ a.class_prob >= THRESHOLD) =>
        /\ pc # "raised"
        /\ \A k \in 1..Len(y_true_binary) :
              y_true_binary[k] = 1 /\ y_pred_binary[k] = 1
        /\ Cardinality(Range(y_true_binary)) = 1
        /\ balanced_acc.kind = "float" /\ balanced_acc.num = balanced_acc.den
        /\ auroc = None

(***************************************************************************)
(* C7                                                                      *)
(***************************************************************************)
\* C7: the binary truth of a pair is 1 exactly when the true label and the
\* predicted class are equal with letter case ignored.
C7_ComparisonIgnoresCase ==
    LeftCalculate =>
        \A k \in 1..Len(y_true_binary) :
            y_true_binary[k] = 1 <=> lower(y_true[k]) = lower(y_pred[k][1])

C9_OnePairPerAnnotation ==
    Extracted =>
        /\ Len(y_true) = TotalAnnotations(data)
        /\ Len(y_pred) = TotalAnnotations(data)
        /\ \A rk \in Positions(data) :
              LET k == Before(data, rk[1]) + rk[2]
                  a == data[rk[1]].annotation[rk[2]]
                  label == extract_true_label(data[rk[1]].id)
              IN  /\ y_true[k] = label
                  /\ y_pred[k][1] = a.class
                  /\ a.class = label => y_pred[k][2] = a.class_prob
                  /\ a.class # label => y_pred[k][2] = Unit - a.class_prob

C9_Witness ==
    /\ pc = "extracted"
    /\ Len(data) = 2
    /\ Len(data[1].annotation) = 0
    /\ Len(data[2].annotation) = 2
    /\ data[2].annotation[1].class = extract_true_label(data[2].id)
    /\ data[2].annotation[2].class # extract_true_label(data[2].id)
    /\ y_pred[1][2] = data[2].annotation[1].class_prob
    /\ y_pred[2][2] = Unit - data[2].annotation[2].class_prob

(***************************************************************************)
(* C10                                                                     *)
(***************************************************************************)
\* C10: calculate_metrics gives a pair binary truth 1 exactly when
\* extract_labels_and_predictions took the branch that keeps class_prob
\* uninverted, for class names of any casing.
C10_StagesAgreeOnMatch ==
    LeftCalculate =>
        \A rk \in Positions(data) :
            LET k == Before(data, rk[1]) + rk[2]
                a == data[rk[1]].annotation[rk[2]]
            IN  y_true_binary[k] = 1
                  <=> a.class = extract_true_label(data[rk[1]].id)
====
